---- MODULE Spec2Model ----
(***************************************************************************)
(* A model of the storage and deployment layers of zk-playground:          *)
(*   src/src/lib/storage/ipfs.ts  IPFSService (upload, download, pin,      *)
(*                                clearCache) and GalleryService.          *)
(*   src/src/lib/solana/sunspot.ts  SunspotService (deployVerifier,        *)
(*                                verifyProofOnChain, setNetwork).         *)
(* Strings are sequences of character codes.  An upload and a download are *)
(* asynchronous: they give up control at every await (the remote POST, the *)
(* gateway GETs), and other calls of the service run in between.           *)
(***************************************************************************)
EXTENDS Integers, Sequences, FiniteSets, TLC

VARIABLES
    cache,      \* IPFSService.cache : Map<cid, SharedCircuit>
    shared,     \* localStorage['zk-playground-shared-circuits'] : cid -> JSON text
    remote,     \* what the remote store holds : cid -> JSON text
    up,         \* the upload call in flight (or the last one that returned)
    dl,         \* the download call in flight (or the last one that returned)
    uploads,    \* history: every upload that has returned
    lastEv,     \* history: the public operation that returned last
    gallery,    \* localStorage['zk-playground-gallery'] : the persisted JSON array
    gRet,       \* history: the last GalleryService call, what it found and returned
    task,       \* the calls on the two stores that are in flight, by caller
    running,    \* the caller whose code the event loop is running, or "none"
    applied,    \* history: the calls on the two stores, in the order they wrote
    svc,        \* SunspotService: network and connection
    call,       \* the deployVerifier / verifyProofOnChain calls, by caller
    nextKey,    \* the keypairs Keypair.generate() has handed out so far
    ledger      \* the transactions the cluster has received

ipfsVars == <<cache, shared, remote, up, dl, uploads, lastEv>>
galleryVars == <<gallery, gRet>>
concVars == <<task, running, applied>>
sunVars == <<svc, call, nextKey, ledger>>
vars == <<cache, shared, remote, up, dl, uploads, lastEv, gallery, gRet,
          task, running, applied, svc, call, nextKey, ledger>>

-----------------------------------------------------------------------------
(* Bounds of the model *)

MaxUploads == 2     \* distinct uploads (identifier, artifact, path) in one behaviour
MaxCount == 1       \* views and likes are counted up to this value
MaxCalls == 3       \* concurrent calls on the two stores in one behaviour

-----------------------------------------------------------------------------
(* Strings and artifacts *)

\* "Aa", "BB", "Ab": the first two have the same 31-multiplier hash.
Titles == { <<65, 97>>, <<66, 66>>, <<65, 98>> }

\* SharedCircuit, reduced to two of its fields; the artifacts that are uploaded.
Artifacts == [title : Titles, timestamp : {1}]

NoData == [title |-> <<>>, timestamp |-> 0]
NoCid == <<>>

\* JSON.stringify(data): {"title":"<title>","timestamp":<digit>}
JsonPrefix == <<123, 34, 116, 105, 116, 108, 101, 34, 58, 34>>
JsonMiddle == <<34, 44, 34, 116, 105, 109, 101, 115, 116, 97, 109, 112, 34, 58>>
Stringify(data) ==
    JsonPrefix \o data.title \o JsonMiddle \o <<48 + data.timestamp, 125>>

\* JSON.parse of such a text.
Parse(content) ==
    [title |-> SubSeq(content, Len(JsonPrefix) + 1,
                      Len(content) - Len(JsonMiddle) - 2),
     timestamp |-> content[Len(content) - 1] - 48]

-----------------------------------------------------------------------------
(* generateMockHash: a 32-bit integer is kept as <<high 16 bits, low 16 bits>> *)

Half == 65536

\* hash = ((hash << 5) - hash) + char; hash = hash & hash   (31*hash + char, to int32)
HashStep(h, ch) ==
    LET t == 31 * h[2] + ch
    IN  << (31 * h[1] + (t \div Half)) % Half, t % Half >>

RECURSIVE HashFrom(_, _, _)
HashFrom(h, content, i) ==
    IF i > Len(content) THEN h
    ELSE HashFrom(HashStep(h, content[i]), content, i + 1)

\* Math.abs of the int32: two's complement negation when the sign bit is set.
AbsInt32(h) ==
    IF h[1] < Half \div 2 THEN h
    ELSE IF h[2] = 0 THEN << Half - h[1], 0 >>
    ELSE << Half - 1 - h[1], Half - h[2] >>

HexChar(d) == IF d < 10 THEN 48 + d ELSE 87 + d

\* the four hexadecimal digits of a 16-bit half
Hex4(n) ==
    << HexChar(n \div 4096), HexChar((n \div 256) % 16),
       HexChar((n \div 16) % 16), HexChar(n % 16) >>

RECURSIVE StripZeros(_)
StripZeros(s) ==
    IF Len(s) > 1 /\ s[1] = 48 THEN StripZeros(Tail(s)) ELSE s

\* Number.prototype.toString(16)
ToString16(h) == StripZeros(Hex4(h[1]) \o Hex4(h[2]))

MockHashLen == 44

\* String.prototype.padStart(n, '0')
PadStart(s, n) == [k \in 1..(IF n > Len(s) THEN n - Len(s) ELSE 0) |-> 48] \o s

generateMockHash(content) ==
    SubSeq(PadStart(ToString16(AbsInt32(HashFrom(<<0, 0>>, content, 1))), MockHashLen),
           1, MockHashLen)

\* `Qm${this.generateMockHash(content)}`
MockCid(content) == <<81, 109>> \o generateMockHash(content)

\* result.Hash of the remote store: content-addressed, one identifier per
\* content ("Qm" and base58 characters, which exclude '0').
RemoteCid(content) ==
    <<81, 109>> \o Parse(content).title \o <<48 + Parse(content).timestamp>>

\* An artifact published to the remote store by somebody else.
ForeignData == [title |-> <<67, 67>>, timestamp |-> 1]
ForeignCid == RemoteCid(Stringify(ForeignData))

-----------------------------------------------------------------------------
(* IPFSService *)

EmptyMap == [k \in {} |-> NoData]

\* Map.prototype.set / an assignment circuits[cid] = value
MapSet(m, k, v) == [x \in DOMAIN m \cup {k} |-> IF x = k THEN v ELSE m[x]]

\* faulty variant: the remote path forgets to cache the uploaded data
RemoteCacheSkipped(c, cid, data) == c

\* upload, remote path: this.cache.set(cid, data)
RemoteCache(c, cid, data) == MapSet(c, cid, data)

\* upload, fallback path: the read-modify-write of the shared-circuits item;
\* any localStorage error is swallowed and leaves the item as it was.
StoreFallback(sh, cid, data, lsFails) ==
    IF lsFails THEN sh ELSE MapSet(sh, cid, Stringify(data))

\* faulty variant: the fallback path forgets to cache the uploaded data
FallbackCacheSkipped(c, cid, data) == c

\* upload, fallback path: this.cache.set(mockCid, data)
FallbackCache(c, cid, data) == MapSet(c, cid, data)

\* faulty variant: the inner catch rethrows the localStorage error
FallbackRaises(lsFails) == IF lsFails THEN "error" ELSE "ok"

\* upload, fallback path: what the caller gets when the local write failed or not
FallbackOutcome(lsFails) == "ok"

\* One entry of a download's log: a source consulted, and what it answered.
Consulted(src, idx, hit, value) ==
    [src |-> src, idx |-> idx, hit |-> hit, value |-> value]

\* download, before the first await: the cache, then the shared-circuits item.
LookupLocal(c, sh, cid, lsFails) ==
    IF cid \in DOMAIN c
    THEN [log |-> << Consulted("cache", 0, TRUE, c[cid]) >>,
          hit |-> TRUE, value |-> c[cid], cache |-> c]
    ELSE IF ~lsFails /\ cid \in DOMAIN sh
    THEN [log |-> << Consulted("cache", 0, FALSE, NoData),
                     Consulted("local", 0, TRUE, Parse(sh[cid])) >>,
          hit |-> TRUE, value |-> Parse(sh[cid]),
          cache |-> MapSet(c, cid, Parse(sh[cid]))]
    ELSE [log |-> << Consulted("cache", 0, FALSE, NoData),
                     Consulted("local", 0, FALSE, NoData) >>,
          hit |-> FALSE, value |-> NoData, cache |-> c]

\* IPFS_GATEWAYS, by position in the list
NumGateways == 4

\* faulty variant: the loop steps over a gateway
NextGatewaySkips(i) == i + 2

\* faulty variant: the loop gives up before the last gateway
GatewaysExhaustedEarly(i) == i >= NumGateways - 1

\* the for loop over IPFS_GATEWAYS: the gateway tried after gateway i failed,
\* and whether gateway i was the last one
NextGateway(i) == i + 1
GatewaysExhausted(i) == i >= NumGateways

\* What a gateway can answer for an identifier: the content if the remote store
\* holds it, a non-2xx status, or no answer (network error, timeout, bad JSON).
GatewayAnswers(cid) ==
    IF cid \in DOMAIN remote THEN {"ok", "non2xx", "throw"} ELSE {"non2xx", "throw"}

Event(op, cid, data, via) == [op |-> op, cid |-> cid, data |-> data, via |-> via]
NoEvent == Event("none", NoCid, NoData, "none")

IdleDownload ==
    [pc |-> "idle", cid |-> NoCid, i |-> 0, log |-> <<>>, outcome |-> "none",
     result |-> NoData, after |-> NoEvent, issued |-> {}, cleared |-> FALSE]

IpfsInit ==
    /\ cache = EmptyMap
    /\ shared = EmptyMap
    /\ remote = MapSet(EmptyMap, ForeignCid, Stringify(ForeignData))
    /\ up = [pc |-> "idle", data |-> NoData]
    /\ dl = IdleDownload
    /\ uploads = {}
    /\ lastEv = NoEvent

\* upload(data), up to the await of the POST to the remote store
UploadStart(data) ==
    /\ up.pc = "idle"
    /\ Cardinality(uploads) < MaxUploads
    /\ up' = [pc |-> "fetch", data |-> data]
    /\ UNCHANGED <<cache, shared, remote, dl, uploads, lastEv, galleryVars, concVars, sunVars>>

\* the POST answered 2xx with the identifier of the content
UploadRemoteOk ==
    /\ up.pc = "fetch"
    /\ LET cid == RemoteCid(Stringify(up.data))
       IN  /\ remote' = MapSet(remote, cid, Stringify(up.data))
           /\ cache' = RemoteCache(cache, cid, up.data)
           /\ uploads' = uploads \cup
                 {[cid |-> cid, data |-> up.data, via |-> "remote",
                   stored |-> FALSE, outcome |-> "ok"]}
           /\ lastEv' = Event("upload", cid, up.data, "remote")
    /\ up' = [pc |-> "idle", data |-> NoData]
    /\ UNCHANGED <<shared, dl, galleryVars, concVars, sunVars>>

\* the POST failed (no answer, or a non-2xx status): the catch block
UploadFallback(lsFails) ==
    /\ up.pc = "fetch"
    /\ LET mockCid == MockCid(Stringify(up.data))
       IN  /\ shared' = StoreFallback(shared, mockCid, up.data, lsFails)
           /\ cache' = IF FallbackOutcome(lsFails) = "ok"
                       THEN FallbackCache(cache, mockCid, up.data) ELSE cache
           /\ uploads' = uploads \cup
                 {[cid |-> mockCid, data |-> up.data, via |-> "local",
                   stored |-> ~lsFails, outcome |-> FallbackOutcome(lsFails)]}
           /\ lastEv' = Event("upload", mockCid, up.data, "local")
    /\ up' = [pc |-> "idle", data |-> NoData]
    /\ UNCHANGED <<remote, dl, galleryVars, concVars, sunVars>>

\* The identifiers a caller asks for.
DownloadCids == {u.cid : u \in uploads} \cup {ForeignCid}

\* download(cid), up to its return or to the await of the first gateway
DownloadStart(cid, lsFails) ==
    /\ dl.pc \in {"idle", "done"}
    /\ LET r == LookupLocal(cache, shared, cid, lsFails)
       IN  /\ cache' = r.cache
           /\ dl' = [pc |-> IF r.hit THEN "done" ELSE "gw",
                     cid |-> cid,
                     i |-> IF r.hit THEN 0 ELSE 1,
                     log |-> r.log,
                     outcome |-> IF r.hit THEN "ok" ELSE "none",
                     result |-> r.value,
                     after |-> IF lastEv.op = "upload" /\ lastEv.cid = cid
                               THEN lastEv ELSE NoEvent,
                     issued |-> {u.data : u \in {x \in uploads : x.cid = cid /\ x.outcome = "ok"}},
                     cleared |-> FALSE]
           /\ lastEv' = IF r.hit THEN Event("download", NoCid, NoData, "none") ELSE lastEv
    /\ UNCHANGED <<shared, remote, up, uploads, galleryVars, concVars, sunVars>>

\* one iteration of the gateway loop: the GET to gateway dl.i is answered
DownloadGateway(answer) ==
    /\ dl.pc = "gw"
    /\ answer \in GatewayAnswers(dl.cid)
    /\ IF answer = "ok"
       THEN LET data == Parse(remote[dl.cid])
            IN  /\ cache' = MapSet(cache, dl.cid, data)
                /\ dl' = [dl EXCEPT !.pc = "done", !.outcome = "ok", !.result = data,
                             !.log = Append(@, Consulted("gateway", dl.i, TRUE, data))]
                /\ lastEv' = Event("download", NoCid, NoData, "none")
       ELSE /\ cache' = cache
            /\ IF GatewaysExhausted(dl.i)
               THEN /\ dl' = [dl EXCEPT !.pc = "done", !.outcome = "error",
                                 !.log = Append(@, Consulted("gateway", dl.i, FALSE, NoData))]
                    /\ lastEv' = Event("download", NoCid, NoData, "none")
               ELSE /\ dl' = [dl EXCEPT !.i = NextGateway(dl.i),
                                 !.log = Append(@, Consulted("gateway", dl.i, FALSE, NoData))]
                    /\ lastEv' = lastEv
    /\ UNCHANGED <<shared, remote, up, uploads, galleryVars, concVars, sunVars>>

\* pin(cid): one POST, true iff it is answered 2xx; never raises, touches no state
Pin(cid, ok) ==
    /\ lastEv' = Event("pin", NoCid, NoData, "none")
    /\ UNCHANGED <<cache, shared, remote, up, dl, uploads, galleryVars, concVars, sunVars>>

\* clearCache()
ClearCache ==
    /\ cache' = EmptyMap
    /\ lastEv' = Event("clearCache", NoCid, NoData, "none")
    \* history: the cache was cleared after the last download returned
    /\ dl' = IF dl.pc = "done" THEN [dl EXCEPT !.cleared = TRUE] ELSE dl
    /\ UNCHANGED <<shared, remote, up, uploads, galleryVars, concVars, sunVars>>

Next ==
    \/ \E data \in Artifacts : UploadStart(data)
    \/ UploadRemoteOk
    \/ \E lsFails \in BOOLEAN : UploadFallback(lsFails)
    \/ \E cid \in DownloadCids, lsFails \in BOOLEAN : DownloadStart(cid, lsFails)
    \/ \E answer \in {"ok", "non2xx", "throw"} : DownloadGateway(answer)
    \/ \E cid \in DownloadCids, ok \in BOOLEAN : Pin(cid, ok)
    \/ ClearCache

-----------------------------------------------------------------------------
(* GalleryService *)

GalleryCap == 100

\* The identifiers and artifacts that are published to the gallery: three
\* identifiers, the first published with two different contents.
GalleryCircuits ==
    { [cid |-> <<81, 109, 49>>, title |-> <<65, 97>>, timestamp |-> 1],
      [cid |-> <<81, 109, 49>>, title |-> <<66, 66>>, timestamp |-> 2],
      [cid |-> <<81, 109, 50>>, title |-> <<66, 66>>, timestamp |-> 1],
      [cid |-> <<81, 109, 51>>, title |-> <<65, 97>>, timestamp |-> 2] }
GalleryCids == { c.cid : c \in GalleryCircuits }

\* JSON.stringify of a GalleryCircuit[]: every entry as the row of its values
GalleryStringify(circuits) ==
    [k \in 1..Len(circuits) |->
        << circuits[k].cid, circuits[k].title, circuits[k].timestamp,
           circuits[k].views, circuits[k].likes >>]

\* JSON.parse of the persisted text
GalleryParse(stored) ==
    [k \in 1..Len(stored) |->
        [cid |-> stored[k][1], title |-> stored[k][2], timestamp |-> stored[k][3],
         views |-> stored[k][4], likes |-> stored[k][5]]]

\* circuits.findIndex((c) => c.cid === cid), 1-based; 0 when there is none
FindIndex(circuits, cid) ==
    IF \E k \in 1..Len(circuits) : circuits[k].cid = cid
    THEN CHOOSE k \in 1..Len(circuits) :
            /\ circuits[k].cid = cid
            /\ \A j \in 1..(k - 1) : circuits[j].cid # cid
    ELSE 0

\* { ...circuit, views: 0, likes: 0 }
NewGalleryCircuit(circuit) ==
    [cid |-> circuit.cid, title |-> circuit.title, timestamp |-> circuit.timestamp,
     views |-> 0, likes |-> 0]

\* faulty variant: addCircuit never looks for an existing entry
UpsertAlwaysUnshift(circuits, entry) == <<entry>> \o circuits

\* addCircuit: replace the entry of that identifier, else insert at the front
Upsert(circuits, entry) ==
    LET existing == FindIndex(circuits, entry.cid)
    IN  IF existing >= 1
        THEN [circuits EXCEPT ![existing] = entry]
        ELSE <<entry>> \o circuits

\* faulty variant: the cap keeps the last n entries
SliceLast(circuits, n) ==
    SubSeq(circuits, IF Len(circuits) < n THEN 1 ELSE Len(circuits) - n + 1, Len(circuits))

\* circuits.slice(0, n)
Slice0(circuits, n) ==
    SubSeq(circuits, 1, IF Len(circuits) < n THEN Len(circuits) ELSE n)

\* faulty variant: the counter of the first entry is raised, whatever was found
BumpViewsOfFirst(circuits, k) == [circuits EXCEPT ![1].views = @ + 1]

\* circuit.views++ / circuit.likes++ on the first entry of that identifier
BumpViews(circuits, k) == [circuits EXCEPT ![k].views = @ + 1]
BumpLikes(circuits, k) == [circuits EXCEPT ![k].likes = @ + 1]

\* the comparators of getCircuits order by these keys, descending
SortKey(filter, c) ==
    IF filter = "recent" THEN c.timestamp ELSE c.views + c.likes

\* faulty variant: a sort that puts an entry before the entries of equal key
RECURSIVE InsertDescUnstable(_, _, _)
InsertDescUnstable(sorted, e, filter) ==
    IF sorted = <<>> THEN <<e>>
    ELSE IF SortKey(filter, Head(sorted)) > SortKey(filter, e)
    THEN <<Head(sorted)>> \o InsertDescUnstable(Tail(sorted), e, filter)
    ELSE <<e>> \o sorted

\* Array.prototype.sort with a comparator that orders by descending key: stable
RECURSIVE InsertDesc(_, _, _)
InsertDesc(sorted, e, filter) ==
    IF sorted = <<>> THEN <<e>>
    ELSE IF SortKey(filter, Head(sorted)) >= SortKey(filter, e)
    THEN <<Head(sorted)>> \o InsertDesc(Tail(sorted), e, filter)
    ELSE <<e>> \o sorted

RECURSIVE SortDesc(_, _)
SortDesc(circuits, filter) ==
    IF circuits = <<>> THEN <<>>
    ELSE InsertDesc(SortDesc(SubSeq(circuits, 1, Len(circuits) - 1), filter),
                    circuits[Len(circuits)], filter)

\* the switch of getCircuits
SortFor(filter, circuits) ==
    IF filter \in {"recent", "popular"} THEN SortDesc(circuits, filter) ELSE circuits

\* String.prototype.toLowerCase and String.prototype.includes
ToLowerCase(str) == [k \in 1..Len(str) |-> IF str[k] >= 65 /\ str[k] <= 90 THEN str[k] + 32 ELSE str[k]]
Includes(str, sub) ==
    \E k \in 0..(Len(str) - Len(sub)) : SubSeq(str, k + 1, k + Len(sub)) = sub

\* the filter of searchCircuits (title only: descriptions and tags are not modelled)
Matches(c, query) == Includes(ToLowerCase(c.title), ToLowerCase(query))

Queries == { <<97>>, <<66>> }
Limits == {2}
Filters == {"recent", "popular", "all"}
\* a localStorage access that fails: the read (getItem or JSON.parse) or the write
Faults == {"none", "read", "write"}

\* faulty variant: a failing localStorage access reaches the caller
GalleryRaisesOnFault(op, fault) == IF fault = "none" THEN "ok" ELSE "error"

\* how a GalleryService call ends: every method catches whatever its
\* localStorage accesses and JSON.parse throw, and returns
GalleryOutcome(op, fault) == "ok"

Returned(op, cid, fault, before, ret) ==
    [op |-> op, cid |-> cid, fault |-> fault, before |-> before, ret |-> ret,
     filter |-> "none", limit |-> 0, outcome |-> GalleryOutcome(op, fault)]

\* the entries of one identifier, as a sequence
EntriesOf(circuits, cid) == SelectSeq(circuits, LAMBDA c : c.cid = cid)

GalleryIdle ==
    /\ gallery = GalleryStringify(<<>>)
    /\ gRet = Returned("none", NoCid, "none", <<>>, <<>>)

\* getCircuits(filter, limit)
GetCircuits(filter, limit, fault) ==
    /\ gRet' = [Returned("getCircuits", NoCid, fault, <<>>,
                         IF fault = "read" THEN <<>>
                         ELSE Slice0(SortFor(filter, GalleryParse(gallery)), limit))
                   EXCEPT !.filter = filter, !.limit = limit]
    /\ UNCHANGED <<gallery, ipfsVars, concVars, sunVars>>

\* addCircuit(circuit)
AddCircuit(circuit, fault) ==
    LET galleryCircuit == NewGalleryCircuit(circuit)
    IN  /\ gallery' =
              IF fault = "none"
              THEN GalleryStringify(
                       Slice0(Upsert(GalleryParse(gallery), galleryCircuit), GalleryCap))
              ELSE gallery
        /\ gRet' = Returned("addCircuit", circuit.cid, fault,
                            EntriesOf(GalleryParse(gallery), circuit.cid),
                            <<galleryCircuit>>)
        /\ UNCHANGED <<ipfsVars, concVars, sunVars>>

\* incrementViews(cid)
IncrementViews(cid, fault) ==
    LET circuits == GalleryParse(gallery)
        k == FindIndex(circuits, cid)
    IN  /\ k >= 1 => circuits[k].views < MaxCount
        /\ gallery' =
              IF fault = "none" /\ k >= 1
              THEN GalleryStringify(BumpViews(circuits, k))
              ELSE gallery
        /\ gRet' = Returned("incrementViews", cid, fault, EntriesOf(circuits, cid), <<>>)
        /\ UNCHANGED <<ipfsVars, concVars, sunVars>>

\* incrementLikes(cid)
IncrementLikes(cid, fault) ==
    LET circuits == GalleryParse(gallery)
        k == FindIndex(circuits, cid)
    IN  /\ k >= 1 => circuits[k].likes < MaxCount
        /\ gallery' =
              IF fault = "none" /\ k >= 1
              THEN GalleryStringify(BumpLikes(circuits, k))
              ELSE gallery
        /\ gRet' = Returned("incrementLikes", cid, fault, EntriesOf(circuits, cid), <<>>)
        /\ UNCHANGED <<ipfsVars, concVars, sunVars>>

\* searchCircuits(query)
SearchCircuits(query, fault) ==
    /\ gRet' = Returned("searchCircuits", NoCid, fault, <<>>,
                        IF fault = "read" THEN <<>>
                        ELSE SelectSeq(GalleryParse(gallery), LAMBDA c : Matches(c, query)))
    /\ UNCHANGED <<gallery, ipfsVars, concVars, sunVars>>

GalleryNext ==
    \/ \E f \in Filters, n \in Limits, fault \in {"none", "read"} : GetCircuits(f, n, fault)
    \/ \E c \in GalleryCircuits, fault \in Faults : AddCircuit(c, fault)
    \/ \E cid \in GalleryCids, fault \in Faults : IncrementViews(cid, fault)
    \/ \E cid \in GalleryCids, fault \in Faults : IncrementLikes(cid, fault)
    \/ \E q \in Queries, fault \in {"none", "read"} : SearchCircuits(q, fault)


-----------------------------------------------------------------------------
(* The read-modify-write sections of the two stores, statement by statement. *)
(* A call runs until it awaits; the event loop runs no other call meanwhile. *)

Callers == {"p", "q"}

\* the calls that rewrite a persisted collection
StoreCalls ==
    { [op |-> "addCircuit", arg |-> c] :
          c \in { x \in GalleryCircuits : x.timestamp = 1 /\ x.cid # <<81, 109, 51>> } }
    \cup { [op |-> o, arg |-> <<81, 109, 49>>] : o \in {"incrementViews", "incrementLikes"} }
    \cup { [op |-> "upload", arg |-> d] : d \in { x \in Artifacts : x.title # <<65, 98>> } }

\* faulty variant: the call awaits between its getItem and its setItem
AwaitsBetweenAlways(op) == TRUE

\* whether a call gives up control between reading the item and writing it
\* back: no await stands between getItem and setItem in any of the four
AwaitsBetween(op) == FALSE

\* whether the call awaits before it reads: upload awaits the POST
AwaitsBefore(op) == op = "upload"

\* what the call reads: the parsed gallery, or the parsed shared-circuits map
ReadStore(c, g, sh) == IF c.op = "upload" THEN sh ELSE GalleryParse(g)

\* the gallery a call writes back, from the copy it read
GalleryWritten(c, g, local) ==
    IF c.op = "addCircuit"
    THEN GalleryStringify(Slice0(Upsert(local, NewGalleryCircuit(c.arg)), GalleryCap))
    ELSE IF c.op = "incrementViews" /\ FindIndex(local, c.arg) >= 1
    THEN GalleryStringify(BumpViews(local, FindIndex(local, c.arg)))
    ELSE IF c.op = "incrementLikes" /\ FindIndex(local, c.arg) >= 1
    THEN GalleryStringify(BumpLikes(local, FindIndex(local, c.arg)))
    ELSE g

\* the shared-circuits map a call writes back, from the copy it read
SharedWritten(c, sh, local) ==
    IF c.op = "upload"
    THEN StoreFallback(local, MockCid(Stringify(c.arg)), c.arg, FALSE)
    ELSE sh

NoCall == [op |-> "none", arg |-> <<>>]
IdleTask == [pc |-> "idle", c |-> NoCall, local |-> <<>>]

ConcIdle ==
    /\ task = [t \in Callers |-> IdleTask]
    /\ running = "none"
    /\ applied = <<>>

InFlight == { t \in Callers : task[t].pc # "idle" }

\* the call is made: its code runs to the first await, or on to the read
CallStore(t, c) ==
    /\ running = "none"
    /\ task[t].pc = "idle"
    /\ Len(applied) + Cardinality(InFlight) < MaxCalls
    /\ task' = [task EXCEPT ![t] =
                  [pc |-> IF AwaitsBefore(c.op) THEN "await" ELSE "read",
                   c |-> c, local |-> <<>>]]
    /\ running' = IF AwaitsBefore(c.op) THEN "none" ELSE t
    /\ UNCHANGED <<ipfsVars, galleryVars, applied, sunVars>>

\* the POST of an upload has failed: the catch block starts
ResumeStore(t) ==
    /\ running = "none"
    /\ task[t].pc = "await"
    /\ task' = [task EXCEPT ![t].pc = "read"]
    /\ running' = t
    /\ UNCHANGED <<ipfsVars, galleryVars, applied, sunVars>>

\* localStorage.getItem and JSON.parse
ReadStep(t) ==
    /\ running = t
    /\ task[t].pc = "read"
    /\ task' = [task EXCEPT ![t].pc = "write",
                            ![t].local = ReadStore(task[t].c, gallery, shared)]
    /\ running' = IF AwaitsBetween(task[t].c.op) THEN "none" ELSE t
    /\ UNCHANGED <<ipfsVars, galleryVars, applied, sunVars>>

\* the change of the copy, localStorage.setItem, and the return
WriteStep(t) ==
    /\ running \in {"none", t}
    /\ task[t].pc = "write"
    /\ gallery' = GalleryWritten(task[t].c, gallery, task[t].local)
    /\ shared' = SharedWritten(task[t].c, shared, task[t].local)
    /\ cache' = IF task[t].c.op = "upload"
                THEN FallbackCache(cache, MockCid(Stringify(task[t].c.arg)), task[t].c.arg)
                ELSE cache
    /\ applied' = Append(applied, task[t].c)
    /\ task' = [task EXCEPT ![t] = IdleTask]
    /\ running' = "none"
    /\ UNCHANGED <<remote, up, dl, uploads, lastEv, gRet, sunVars>>

ConcNext ==
    \/ \E t \in Callers, c \in StoreCalls : CallStore(t, c)
    \/ \E t \in Callers : ResumeStore(t)
    \/ \E t \in Callers : ReadStep(t)
    \/ \E t \in Callers : WriteStep(t)

\* the two stores after the calls of a sequence, each run alone, one after another
RECURSIVE Serial(_, _, _)
Serial(calls, g, sh) ==
    IF calls = <<>> THEN [gallery |-> g, shared |-> sh]
    ELSE LET c == Head(calls)
         IN  Serial(Tail(calls),
                    GalleryWritten(c, g, ReadStore(c, g, sh)),
                    SharedWritten(c, sh, ReadStore(c, g, sh)))

-----------------------------------------------------------------------------
(* SunspotService: src/src/lib/solana/sunspot.ts.  deployVerifier and        *)
(* verifyProofOnChain give up control at each await (the rent query, the    *)
(* blockhash query, the wallet's signature, the submission, the             *)
(* confirmation); setNetwork and other calls run in between.  Neither       *)
(* method has a try/catch: what an awaited call throws is what the caller   *)
(* of the method gets.                                                      *)

Networks == {"devnet", "testnet", "mainnet-beta"}
SunCallers == {"a", "b"}

\* config.verificationKey, and config.proof with the joined public inputs
VerificationKey == <<7, 9>>
VerificationData == <<5, 44, 6>>

\* what the awaited calls throw: web3.js errors of the RPC client, and whatever
\* the wallet's signTransaction rejects with
RentResults == {"ok", "FetchFailed"}
BlockhashResults == {"ok", "FetchFailed"}
SignResults == {"ok", "WalletSignTransactionError"}
SendResults == {"ok", "FetchFailed", "SendTransactionError"}
\* confirmTransaction resolves with value.err null ("ok") or set ("err"), or
\* throws when the blockhash has expired
ConfirmResults == {"ok", "err", "TransactionExpiredBlockheightExceededError"}

\* the answer of getMinimumBalanceForRentExemption
RentLamports(space) == 7 * space

VerifierMetadataSize == 64

NoRecord == [kind |-> "none"]
NoTx == [instructions |-> <<>>, signers |-> {}]

IdleCall ==
    [kind |-> "none", pc |-> "idle", conn |-> "none", progress |-> <<>>,
     programId |-> 0, lamports |-> 0, tx |-> NoTx, signature |-> <<>>,
     confirmed |-> "none", outcome |-> "none", error |-> "none",
     failedAt |-> "none", result |-> NoRecord, signCalls |-> 0, sends |-> 0]

SunspotInit ==
    /\ svc = [network |-> "devnet", connection |-> "devnet"]
    /\ call = [p \in SunCallers |-> IdleCall]
    /\ nextKey = 0
    /\ ledger = {}

\* faulty variant: one keypair serves every deployment
GenerateKeypairOnce(n) == IF n = 0 THEN n + 1 ELSE n

\* Keypair.generate(): a key no earlier call of it has returned
GenerateKeypair(n) == n + 1

\* faulty variant: the 'Building transaction...' event is left out
DeployProgressShort(stage) ==
    IF stage = "start" THEN <<10, 20>>
    ELSE IF stage = "rent" THEN <<30>>
    ELSE IF stage = "blockhash" THEN <<50>>
    ELSE IF stage = "sign" THEN <<70>>
    ELSE IF stage = "send" THEN <<85>>
    ELSE <<100>>

\* the onProgress calls of deployVerifier that follow each await
DeployProgress(stage) ==
    IF stage = "start" THEN <<10, 20>>
    ELSE IF stage = "rent" THEN <<30, 40>>
    ELSE IF stage = "blockhash" THEN <<50>>
    ELSE IF stage = "sign" THEN <<70>>
    ELSE IF stage = "send" THEN <<85>>
    ELSE <<100>>

\* faulty variant: the 'Confirming verification...' event is left out
VerifyProgressWithout85(stage) ==
    IF stage = "start" THEN <<10, 30>>
    ELSE IF stage = "blockhash" THEN <<50>>
    ELSE IF stage = "sign" THEN <<70>>
    ELSE IF stage = "send" THEN <<>>
    ELSE <<100>>

\* faulty variant: 'Confirming verification...' reports a lower value
VerifyProgressDips(stage) ==
    IF stage = "start" THEN <<10, 30>>
    ELSE IF stage = "blockhash" THEN <<50>>
    ELSE IF stage = "sign" THEN <<70>>
    ELSE IF stage = "send" THEN <<60>>
    ELSE <<100>>

\* the onProgress calls of verifyProofOnChain that follow each await
VerifyProgress(stage) ==
    IF stage = "start" THEN <<10, 30>>
    ELSE IF stage = "blockhash" THEN <<50>>
    ELSE IF stage = "sign" THEN <<70>>
    ELSE IF stage = "send" THEN <<85>>
    ELSE <<100>>

ProgressAfter(kind, stage) ==
    IF kind = "deploy" THEN DeployProgress(stage) ELSE VerifyProgress(stage)

\* SystemProgram.createAccount({...})
CreateAccountIx(account, lamports, space) ==
    [type |-> "createAccount", newAccount |-> account, lamports |-> lamports,
     space |-> space, data |-> <<>>]

\* new TransactionInstruction({... data: Buffer.from(config.verificationKey)})
StoreDataIx(account, vk) ==
    [type |-> "storeData", newAccount |-> account, lamports |-> 0,
     space |-> 0, data |-> vk]

\* new TransactionInstruction({... data: verificationData})
VerifyIx(data) ==
    [type |-> "verify", newAccount |-> 0, lamports |-> 0, space |-> 0, data |-> data]

\* new Transaction(); transaction.add(createAccountIx): storeDataIx is built
\* and never added
DeployInstructions(createAccountIx, storeDataIx) == << createAccountIx >>

\* the error a failed call rejects with: the awaited call's own, as thrown
Surfaced(stage, thrown) == thrown

\* faulty variant: the call that threw is made again
FailedRetries(c, stage, thrown) == c

\* an awaited call threw: the method ends there
Failed(c, stage, thrown) ==
    [c EXCEPT !.pc = "done", !.outcome = "error", !.failedAt = stage,
              !.error = Surfaced(stage, thrown)]

\* the first signature of a transaction the wallet has signed
Signature(p) == <<"sig", p>>

\* A Connection is named by the network whose RPC_ENDPOINTS entry it was made for.
\* faulty variant: setNetwork keeps the connection it has
ConnectionKept(network, connection) == connection

\* setNetwork: this.connection = new Connection(RPC_ENDPOINTS[network], 'confirmed')
ConnectionAfterSet(network, connection) == network

\* getConnection(): the connection of the service, made first if there is none
GetConnection(s) == IF s.connection = "null" THEN s.network ELSE s.connection

\* setNetwork(network); getSunspotService(network) calls it on the instance
SetNetwork(network) ==
    /\ svc.network # network
    /\ svc' = [network |-> network,
               connection |-> ConnectionAfterSet(network, svc.connection)]
    /\ UNCHANGED <<ipfsVars, galleryVars, concVars, call, nextKey, ledger>>

\* deployVerifier, up to the await of getMinimumBalanceForRentExemption
DeployStart(p) ==
    /\ call[p].pc = "idle"
    /\ nextKey' = GenerateKeypair(nextKey)
    /\ call' = [call EXCEPT ![p] =
                  [IdleCall EXCEPT !.kind = "deploy", !.pc = "rent",
                                   !.conn = GetConnection(svc),
                                   !.programId = GenerateKeypair(nextKey),
                                   !.progress = ProgressAfter("deploy", "start")]]
    /\ UNCHANGED <<ipfsVars, galleryVars, concVars, svc, ledger>>

\* the rent query answered; deployVerifier up to the await of getLatestBlockhash
RentAnswered(p, r) ==
    /\ call[p].pc = "rent"
    /\ LET c == call[p]
           space == Len(VerificationKey) + VerifierMetadataSize
           lamports == RentLamports(space)
       IN  call' = [call EXCEPT ![p] =
              IF r # "ok" THEN Failed(c, "rent", r)
              ELSE [c EXCEPT !.pc = "blockhash",
                             !.lamports = lamports,
                             !.tx = [instructions |->
                                        DeployInstructions(
                                            CreateAccountIx(c.programId, lamports, space),
                                            StoreDataIx(c.programId, VerificationKey)),
                                     signers |-> {}],
                             !.progress = @ \o ProgressAfter("deploy", "rent")]]
    /\ UNCHANGED <<ipfsVars, galleryVars, concVars, svc, nextKey, ledger>>

\* verifyProofOnChain, up to the await of getLatestBlockhash
VerifyStart(p) ==
    /\ call[p].pc = "idle"
    /\ call' = [call EXCEPT ![p] =
                  [IdleCall EXCEPT !.kind = "verify", !.pc = "blockhash",
                                   !.conn = GetConnection(svc),
                                   !.tx = [instructions |-> << VerifyIx(VerificationData) >>,
                                           signers |-> {}],
                                   !.progress = ProgressAfter("verify", "start")]]
    /\ UNCHANGED <<ipfsVars, galleryVars, concVars, svc, nextKey, ledger>>

\* the blockhash query answered; up to the await of signTransaction
BlockhashAnswered(p, r) ==
    /\ call[p].pc = "blockhash"
    /\ LET c == call[p]
       IN  call' = [call EXCEPT ![p] =
              IF r # "ok" THEN Failed(c, "blockhash", r)
              ELSE [c EXCEPT !.pc = "sign",
                             !.tx.signers = IF c.kind = "deploy" THEN {"verifierAccount"}
                                            ELSE {},
                             !.progress = @ \o ProgressAfter(c.kind, "blockhash")]]
    /\ UNCHANGED <<ipfsVars, galleryVars, concVars, svc, nextKey, ledger>>

\* the wallet answered; up to the await of sendRawTransaction
SignAnswered(p, r) ==
    /\ call[p].pc = "sign"
    /\ LET c == [call[p] EXCEPT !.signCalls = @ + 1]
       IN  call' = [call EXCEPT ![p] =
              IF r # "ok" THEN Failed(c, "sign", r)
              ELSE [c EXCEPT !.pc = "send",
                             !.tx.signers = @ \cup {"wallet"},
                             !.progress = @ \o ProgressAfter(c.kind, "sign")]]
    /\ UNCHANGED <<ipfsVars, galleryVars, concVars, svc, nextKey, ledger>>

\* the submission answered; up to the await of confirmTransaction
SendAnswered(p, r) ==
    /\ call[p].pc = "send"
    /\ LET c == [call[p] EXCEPT !.sends = @ + 1]
       IN  /\ call' = [call EXCEPT ![p] =
                  IF r # "ok" THEN Failed(c, "send", r)
                  ELSE [c EXCEPT !.pc = "confirm",
                                 !.signature = Signature(p),
                                 !.progress = @ \o ProgressAfter(c.kind, "send")]]
           /\ ledger' = IF r = "ok"
                        THEN ledger \cup {[signature |-> Signature(p), tx |-> c.tx,
                                           cluster |-> c.conn, attempt |-> c.sends]}
                        ELSE ledger
    /\ UNCHANGED <<ipfsVars, galleryVars, concVars, svc, nextKey>>

\* the confirmation answered; the method returns its record, whatever value.err is
ConfirmAnswered(p, r) ==
    /\ call[p].pc = "confirm"
    /\ LET c == call[p]
       IN  call' = [call EXCEPT ![p] =
              IF r \notin {"ok", "err"} THEN Failed(c, "confirm", r)
              ELSE [c EXCEPT !.pc = "done",
                             !.confirmed = r,
                             !.outcome = "ok",
                             !.progress = @ \o ProgressAfter(c.kind, "confirm"),
                             !.result =
                                 IF c.kind = "deploy"
                                 THEN [kind |-> "deployment", programId |-> c.programId,
                                       transactionSignature |-> c.signature,
                                       network |-> svc.network, isValid |-> TRUE]
                                 ELSE [kind |-> "verification", programId |-> 0,
                                       transactionSignature |-> c.signature,
                                       network |-> svc.network, isValid |-> TRUE]]]
    /\ UNCHANGED <<ipfsVars, galleryVars, concVars, svc, nextKey, ledger>>

\* what connection.requestAirdrop and the confirmTransaction after it answer
AirdropResults == {"ok", "FetchFailed"}
AirdropConfirmResults == {"ok", "TransactionExpiredTimeoutError"}

\* faulty variant: the airdrop is requested on every network
AirdropNeverRefused(network) == FALSE

\* if (this.network === 'mainnet-beta') throw new Error(...)
AirdropRefused(network) == network = "mainnet-beta"

\* requestAirdrop, up to its throw or to the await of connection.requestAirdrop
AirdropStart(p) ==
    /\ call[p].pc = "idle"
    /\ call' = [call EXCEPT ![p] =
                  IF AirdropRefused(svc.network)
                  THEN Failed([IdleCall EXCEPT !.kind = "airdrop"], "guard",
                              "Airdrop not available on mainnet")
                  ELSE [IdleCall EXCEPT !.kind = "airdrop", !.pc = "airdrop",
                                        !.conn = GetConnection(svc)]]
    /\ UNCHANGED <<ipfsVars, galleryVars, concVars, svc, nextKey, ledger>>

\* the airdrop request answered; up to the await of confirmTransaction(signature)
AirdropAnswered(p, r) ==
    /\ call[p].pc = "airdrop"
    /\ call' = [call EXCEPT ![p] =
                  IF r # "ok" THEN Failed(call[p], "airdrop", r)
                  ELSE [call[p] EXCEPT !.pc = "airdropConfirm",
                                       !.signature = Signature(p)]]
    /\ UNCHANGED <<ipfsVars, galleryVars, concVars, svc, nextKey, ledger>>

\* the confirmation of the airdrop answered; requestAirdrop returns the signature
AirdropConfirmed(p, r) ==
    /\ call[p].pc = "airdropConfirm"
    /\ call' = [call EXCEPT ![p] =
                  IF r # "ok" THEN Failed(call[p], "airdropConfirm", r)
                  ELSE [call[p] EXCEPT !.pc = "done", !.outcome = "ok",
                                       !.result = [kind |-> "airdrop",
                                                   transactionSignature |-> call[p].signature]]]
    /\ UNCHANGED <<ipfsVars, galleryVars, concVars, svc, nextKey, ledger>>

SunspotNext ==
    \/ \E n \in Networks : SetNetwork(n)
    \/ \E p \in SunCallers : DeployStart(p)
    \/ \E p \in SunCallers, r \in RentResults : RentAnswered(p, r)
    \/ \E p \in SunCallers : VerifyStart(p)
    \/ \E p \in SunCallers, r \in BlockhashResults : BlockhashAnswered(p, r)
    \/ \E p \in SunCallers, r \in SignResults : SignAnswered(p, r)
    \/ \E p \in SunCallers, r \in SendResults : SendAnswered(p, r)
    \/ \E p \in SunCallers, r \in ConfirmResults : ConfirmAnswered(p, r)
    \/ \E p \in SunCallers : AirdropStart(p)
    \/ \E p \in SunCallers, r \in AirdropResults : AirdropAnswered(p, r)
    \/ \E p \in SunCallers, r \in AirdropConfirmResults : AirdropConfirmed(p, r)

Init == IpfsInit /\ GalleryIdle /\ ConcIdle /\ SunspotInit

\* the IPFSService calls, in any interleaving
Spec == Init /\ [][Next]_vars

\* the GalleryService calls, in any order
GallerySpec == Init /\ [][GalleryNext]_vars

\* concurrent calls on the gallery and on the shared-circuits store
ConcSpec == Init /\ [][ConcNext]_vars

\* two deployVerifier / verifyProofOnChain calls and setNetwork, in any interleaving
SunspotSpec == Init /\ [][SunspotNext]_vars

\* a gallery grown to its cap by earlier publications of other identifiers
FillerCid(k) == <<81, 109, 70, k>>
FillerCircuit(k) ==
    [cid |-> FillerCid(k), title |-> <<67, 67>>, timestamp |-> 1, views |-> 0, likes |-> 0]
FilledGallery(n) == GalleryStringify([k \in 1..n |-> FillerCircuit(k)])

GalleryNearCap ==
    /\ IpfsInit
    /\ gallery \in { FilledGallery(GalleryCap - 1), FilledGallery(GalleryCap) }
    /\ gRet = Returned("none", NoCid, "none", <<>>, <<>>)
    /\ ConcIdle
    /\ SunspotInit

GalleryCapNext ==
    \E c \in GalleryCircuits, fault \in Faults : AddCircuit(c, fault)

\* addCircuit calls on a gallery that holds GalleryCap entries, or one less
GalleryCapSpec == GalleryNearCap /\ [][GalleryCapNext]_vars

-----------------------------------------------------------------------------
(* Properties of IPFSService *)

GatewayLog(log) == SelectSeq(log, LAMBDA e : e.src = "gateway")

\* C1: a download called with the identifier an upload has just returned ends
\* with the uploaded artifact, on the remote path and on the fallback path.
C1_RoundTrip ==
    (dl.pc # "idle" /\ dl.after.op = "upload") =>
        /\ dl.pc = "done"
        /\ dl.outcome = "ok"
        /\ dl.result = dl.after.data

C1_Witness ==
    /\ dl.pc = "done"
    /\ dl.after.op = "upload"
    /\ dl.after.via = "remote"
    /\ dl.result \in Artifacts

\* C2 (as claimed): a download of an identifier that an upload returned before
\* the download began succeeds with an artifact uploaded under it.
C2_AlwaysResolvable ==
    (dl.pc = "done" /\ dl.issued # {}) =>
        (dl.outcome = "ok" /\ dl.result \in dl.issued)

\* C3: an upload whose remote POST failed returns the locally computed
\* identifier without raising, and the download that follows it is answered by
\* the cache or the local store: no gateway is requested.
C3_FallbackIsLocal ==
    /\ \A u \in uploads :
          u.via = "local" =>
              u.outcome = "ok" /\ u.cid = MockCid(Stringify(u.data))
    /\ (dl.pc # "idle" /\ dl.after.op = "upload" /\ dl.after.via = "local") =>
          /\ dl.pc = "done"
          /\ dl.outcome = "ok"
          /\ dl.result = dl.after.data
          /\ GatewayLog(dl.log) = <<>>

C3_Witness ==
    /\ dl.pc = "done"
    /\ dl.after.op = "upload"
    /\ dl.after.via = "local"
    /\ \E u \in uploads : u.cid = dl.cid /\ u.via = "local" /\ ~u.stored

\* C4: a download fails only after the cache and the local store missed and
\* each of the configured gateways was requested exactly once, in list order.
C4_NotFoundAfterAllGateways ==
    (dl.pc = "done" /\ dl.outcome = "error") =>
        LET g == GatewayLog(dl.log)
        IN  /\ Len(g) = NumGateways
            /\ \A k \in 1..Len(g) : g[k].idx = k /\ ~g[k].hit
            /\ \A k \in 1..Len(dl.log) : ~dl.log[k].hit

C4_Witness ==
    /\ dl.pc = "done"
    /\ dl.outcome = "error"
    /\ dl.cid \notin DOMAIN cache
    /\ dl.cid \notin DOMAIN shared

\* the sources of a download in the order of resolution
SourceOrder ==
    << [src |-> "cache", idx |-> 0], [src |-> "local", idx |-> 0] >>
    \o [k \in 1..NumGateways |-> [src |-> "gateway", idx |-> k]]

\* C5: the sources consulted by one download are an initial part of: cache,
\* local store, gateways in list order; every source before the last one
\* consulted missed; a successful download returns what the last source
\* consulted answered, and a failed one was answered by no source.
C5_ResolutionOrder ==
    LET n == Len(dl.log)
    IN  /\ n <= Len(SourceOrder)
        /\ \A k \in 1..n :
              /\ dl.log[k].src = SourceOrder[k].src
              /\ dl.log[k].idx = SourceOrder[k].idx
        /\ \A k \in 1..(n - 1) : ~dl.log[k].hit
        /\ dl.outcome = "ok" => (n >= 1 /\ dl.log[n].hit /\ dl.result = dl.log[n].value)
        /\ dl.outcome = "error" => (n >= 1 /\ ~dl.log[n].hit)
        /\ dl.pc = "gw" => (n >= 2 /\ ~dl.log[n].hit /\ dl.i = n - 1)

C5_Witness ==
    /\ dl.pc = "done"
    /\ dl.outcome = "ok"
    /\ Len(dl.log) = 4
    /\ dl.log[4].src = "gateway"
    /\ dl.log[4].hit

\* C6 (as claimed): an upload is an error exactly when the remote POST failed
\* and the local write failed too.
C6_ErrorIffBothFail ==
    \A u \in uploads :
        (u.outcome = "error") <=> (u.via = "local" /\ ~u.stored)

\* C6 (amended): no upload is an error; an upload whose remote POST and local
\* write both failed returns the local identifier, and the artifact is in the
\* cache under it when the upload returns.
C6_UploadNeverRaises ==
    /\ \A u \in uploads : u.outcome = "ok"
    /\ lastEv.op = "upload" =>
          (lastEv.cid \in DOMAIN cache /\ cache[lastEv.cid] = lastEv.data)

C6_Witness ==
    /\ lastEv.op = "upload"
    /\ lastEv.via = "local"
    /\ lastEv.cid \notin DOMAIN shared
    /\ \E u \in uploads : u.cid = lastEv.cid /\ u.via = "local" /\ ~u.stored

\* C7 (as claimed): two fallback uploads return the same identifier exactly
\* when their serialized contents are the same.
C7_FallbackCidInjective ==
    \A u1, u2 \in uploads :
        (u1.via = "local" /\ u2.via = "local") =>
            ((u1.cid = u2.cid) <=> (Stringify(u1.data) = Stringify(u2.data)))

-----------------------------------------------------------------------------
(* Properties of GalleryService, under GallerySpec *)

\* C8 (as claimed): an addCircuit for an identifier that has an entry leaves the
\* entry with the new artifact fields and with the views and likes it had.
C8_RepublishKeepsCounters ==
    (gRet.op = "addCircuit" /\ gRet.fault = "none" /\ gRet.before # <<>>) =>
        LET now == EntriesOf(GalleryParse(gallery), gRet.cid)
        IN  /\ Len(now) = 1
            /\ now[1].title = gRet.ret[1].title
            /\ now[1].timestamp = gRet.ret[1].timestamp
            /\ now[1].views = gRet.before[1].views
            /\ now[1].likes = gRet.before[1].likes

\* C9 (as claimed): no GalleryService call lowers the views or the likes of an
\* identifier that is in the persisted collection before and after the call.
C9_CountersNeverDecrease ==
    [][ LET old == GalleryParse(gallery)
            new == GalleryParse(gallery')
        IN  \A i \in 1..Len(old), j \in 1..Len(new) :
                old[i].cid = new[j].cid =>
                    (new[j].views >= old[i].views /\ new[j].likes >= old[i].likes)
      ]_vars

\* C10: the persisted collection never holds two entries of one identifier.
C10_OneEntryPerCid ==
    LET circuits == GalleryParse(gallery)
    IN  \A i, j \in 1..Len(circuits) :
            circuits[i].cid = circuits[j].cid => i = j

C10_Witness ==
    /\ gRet.op = "addCircuit"
    /\ gRet.fault = "none"
    /\ gRet.before # <<>>
    /\ Len(gallery) = Cardinality(GalleryCids)
    /\ FindIndex(GalleryParse(gallery), gRet.cid) = Len(gallery)

\* C11: incrementViews and incrementLikes of an identifier that has no entry
\* leave the persisted collection as it was; of an identifier that has one (the
\* storage working) they raise that entry's counter by one and change no other
\* entry, field or position.
C11_IncrementFrame ==
    [][ gRet'.op \in {"incrementViews", "incrementLikes"} =>
          LET old == GalleryParse(gallery)
              new == GalleryParse(gallery')
              k == FindIndex(old, gRet'.cid)
              dv == IF gRet'.op = "incrementViews" THEN 1 ELSE 0
          IN  IF k = 0
              THEN gallery' = gallery
              ELSE gRet'.fault = "none" =>
                     /\ Len(new) = Len(old)
                     /\ \A j \in 1..Len(old) : j # k => new[j] = old[j]
                     /\ new[k].cid = old[k].cid
                     /\ new[k].title = old[k].title
                     /\ new[k].timestamp = old[k].timestamp
                     /\ new[k].views = old[k].views + dv
                     /\ new[k].likes = old[k].likes + (1 - dv)
      ]_vars

C11_Witness ==
    /\ gRet.op = "incrementViews"
    /\ gRet.fault = "none"
    /\ gRet.before # <<>>
    /\ Len(gallery) = Cardinality(GalleryCids)
    /\ LET circuits == GalleryParse(gallery)
           k == FindIndex(circuits, gRet.cid)
       IN  k = 2 /\ circuits[k].views = gRet.before[1].views + 1

\* C12: getCircuits (the storage working) returns min(limit, n) entries of the
\* persisted collection and leaves the collection as it is; for 'popular' they
\* are the entries of highest views+likes, in descending order, entries of
\* equal views+likes in their stored order; for 'recent' those of largest
\* timestamp, in descending order.
C12_ListOrder ==
    [][ gRet'.op = "getCircuits" =>
          /\ gallery' = gallery
          /\ gRet'.fault = "none" =>
               LET circuits == GalleryParse(gallery)
                   ret == gRet'.ret
                   n == Len(circuits)
                   f == gRet'.filter
                   in(c) == \E i \in 1..Len(ret) : ret[i] = c
               IN  /\ Len(ret) = (IF gRet'.limit < n THEN gRet'.limit ELSE n)
                   /\ \A i \in 1..Len(ret) : \E k \in 1..n : circuits[k] = ret[i]
                   /\ \A i, j \in 1..Len(ret) : i # j => ret[i].cid # ret[j].cid
                   /\ f \in {"recent", "popular"} =>
                        /\ \A i, j \in 1..Len(ret) :
                              i < j => SortKey(f, ret[i]) >= SortKey(f, ret[j])
                        /\ \A i \in 1..Len(ret), k \in 1..n :
                              ~in(circuits[k]) =>
                                  SortKey(f, ret[i]) >= SortKey(f, circuits[k])
                   /\ f = "popular" =>
                        /\ \A i, j \in 1..Len(ret) :
                              (i < j /\ SortKey(f, ret[i]) = SortKey(f, ret[j])) =>
                                  FindIndex(circuits, ret[i].cid)
                                      < FindIndex(circuits, ret[j].cid)
                        /\ \A i \in 1..Len(ret), k \in 1..n :
                              (~in(circuits[k])
                                 /\ SortKey(f, ret[i]) = SortKey(f, circuits[k])) =>
                                  FindIndex(circuits, ret[i].cid) < k
      ]_vars

C12_Witness ==
    /\ gRet.op = "getCircuits"
    /\ gRet.fault = "none"
    /\ gRet.filter = "popular"
    /\ gRet.limit = 2
    /\ Len(gallery) = Cardinality(GalleryCids)
    /\ LET circuits == GalleryParse(gallery)
       IN  /\ SortKey("popular", circuits[1]) < SortKey("popular", circuits[2])
           /\ SortKey("popular", circuits[2]) = SortKey("popular", circuits[3])
           /\ gRet.ret = << circuits[2], circuits[3] >>

\* C13: after every addCircuit the persisted collection holds at most
\* GalleryCap entries; an identifier it did not hold is put at the front, the
\* entries before it follow in their order, and what the cap removes is the
\* tail, never the entry just added.
C13_CapKeepsFront ==
    [][ gRet'.op = "addCircuit" =>
          LET old == GalleryParse(gallery)
              new == GalleryParse(gallery')
          IN  /\ Len(new) <= GalleryCap
              /\ (gRet'.fault = "none" /\ FindIndex(old, gRet'.cid) = 0) =>
                   /\ new[1] = gRet'.ret[1]
                   /\ Len(new) = (IF Len(old) < GalleryCap THEN Len(old) + 1
                                  ELSE GalleryCap)
                   /\ \A k \in 2..Len(new) : new[k] = old[k - 1]
      ]_vars

C13_Witness ==
    /\ gRet.op = "addCircuit"
    /\ gRet.fault = "none"
    /\ gRet.before = <<>>
    /\ Len(gallery) = GalleryCap
    /\ GalleryParse(gallery)[1] = gRet.ret[1]
    /\ GalleryParse(gallery)[GalleryCap].cid = FillerCid(GalleryCap - 2)

DeployCalls == { p \in SunCallers : call[p].kind = "deploy" }
VerifyCalls == { p \in SunCallers : call[p].kind = "verify" }

-----------------------------------------------------------------------------
(* Properties of SunspotService *)

\* the values a call has passed to onProgress, as a set
Reported(p) == { call[p].progress[i] : i \in 1..Len(call[p].progress) }

\* C15: a deployVerifier call that returns has called the progress callback
\* with 10, 20, 30, 40, 50, 70, 85, 100, each once and in this order, whatever
\* ran between its awaits.
C15_DeployProgress ==
    \A p \in DeployCalls :
        call[p].outcome = "ok" =>
            call[p].progress = <<10, 20, 30, 40, 50, 70, 85, 100>>

C15_Witness ==
    \E p \in DeployCalls, q \in SunCallers :
        /\ call[p].outcome = "ok"
        /\ call[p].confirmed = "ok"
        /\ Len(call[p].progress) = 8
        /\ call[q].pc = "confirm"

\* C16: in a deployVerifier or verifyProofOnChain call, returning or failing,
\* the progress values never decrease, 100 is reported only as the last event
\* (so at most once), and a call that returns has reported it.
C16_ProgressMonotone ==
    \A p \in DeployCalls \cup VerifyCalls :
        LET pr == call[p].progress
        IN  /\ \A i, j \in 1..Len(pr) : i < j => pr[i] <= pr[j]
            /\ \A i \in 1..Len(pr) : pr[i] = 100 => i = Len(pr)
            /\ call[p].outcome = "ok" => (Len(pr) >= 1 /\ pr[Len(pr)] = 100)
            /\ call[p].outcome = "error" => 100 \notin Reported(p)

C16_Witness ==
    \E p, q \in SunCallers :
        /\ call[p].kind = "verify"
        /\ call[p].outcome = "ok"
        /\ call[p].progress[Len(call[p].progress)] = 100
        /\ call[q].kind = "verify"
        /\ call[q].failedAt = "send"
        /\ call[q].progress = <<10, 30, 50, 70>>

\* C17: a deployVerifier call whose signer rejects fails with the error kind
\* SignerRejected, returns no record, has submitted no transaction and reports
\* neither 85 nor 100.
C17_SignerRejected ==
    \A p \in DeployCalls :
        call[p].failedAt = "sign" =>
            /\ call[p].outcome = "error"
            /\ call[p].error = "SignerRejected"
            /\ call[p].result = NoRecord
            /\ \A e \in ledger : e.signature # Signature(p)
            /\ 85 \notin Reported(p)
            /\ 100 \notin Reported(p)

\* C18: when a step of deployVerifier or verifyProofOnChain fails, the call has
\* ended with no record and no progress event of a later step, and its error
\* identifies the step: calls that failed with the same error failed at the
\* same step.
C18_ErrorNamesStage ==
    \A p \in DeployCalls \cup VerifyCalls :
        call[p].outcome = "error" =>
            /\ call[p].pc = "done"
            /\ call[p].result = NoRecord
            /\ call[p].failedAt = "sign" => Reported(p) \cap {70, 85, 100} = {}
            /\ call[p].failedAt = "send" => Reported(p) \cap {85, 100} = {}
            /\ \A q \in DeployCalls \cup VerifyCalls :
                  (call[q].outcome = "error" /\ call[q].error = call[p].error) =>
                      call[q].failedAt = call[p].failedAt

\* C19: a deployVerifier call has a record or has reported 100 only if the
\* confirmation answered that the transaction succeeded.
C19_RecordOnlyIfConfirmed ==
    \A p \in DeployCalls :
        (call[p].result # NoRecord \/ 100 \in Reported(p)) =>
            call[p].confirmed = "ok"

\* C20: every deployVerifier call has an account key of its own: two calls
\* never have the same programId, the transaction of a call creates the
\* account of that call, and the programId of a returned record is the account
\* created by the transaction that call submitted.
C20_FreshProgramId ==
    /\ \A p, q \in DeployCalls : p # q => call[p].programId # call[q].programId
    /\ \A p \in DeployCalls :
          /\ \A i \in 1..Len(call[p].tx.instructions) :
                call[p].tx.instructions[i].type = "createAccount" =>
                    call[p].tx.instructions[i].newAccount = call[p].programId
          /\ call[p].result # NoRecord =>
                \E e \in ledger :
                    /\ e.signature = call[p].result.transactionSignature
                    /\ e.signature = Signature(p)
                    /\ \E i \in 1..Len(e.tx.instructions) :
                          /\ e.tx.instructions[i].type = "createAccount"
                          /\ e.tx.instructions[i].newAccount = call[p].result.programId

C20_Witness ==
    \E p, q \in DeployCalls :
        /\ p # q
        /\ call[p].result # NoRecord
        /\ call[q].result # NoRecord
        /\ call[p].result.programId = 2
        /\ call[q].result.programId = 1
        /\ Cardinality(ledger) = 2

\* the calls whose transaction has been handed to the signer
HandedToSigner == { p \in SunCallers : call[p].pc \in {"sign", "send", "confirm"}
                                         \/ call[p].failedAt \in {"sign", "send", "confirm"}
                                         \/ call[p].outcome = "ok" }

\* C21: the transaction deployVerifier hands to the signer and submits has an
\* instruction whose data is the verification key of the call's config, next
\* to the instruction that creates the account.
C21_KeyInTransaction ==
    \A p \in DeployCalls \cap HandedToSigner :
        LET ixs == call[p].tx.instructions
        IN  /\ \E i \in 1..Len(ixs) : ixs[i].type = "createAccount"
            /\ \E i \in 1..Len(ixs) : ixs[i].data = VerificationKey

\* C22: a deployVerifier call whose submitted transaction is not reported
\* final ends, and ends with the ConfirmationTimeout error: a call that failed
\* while waiting for the confirmation has that error, and its transaction is
\* on the ledger under the signature the call holds.
C22_ConfirmationTimeout ==
    \A p \in DeployCalls :
        call[p].failedAt = "confirm" =>
            /\ call[p].outcome = "error"
            /\ call[p].error = "ConfirmationTimeout"
            /\ \E e \in ledger : e.signature = call[p].signature

\* C23, as claimed: a verifyProofOnChain call that returns has called the
\* progress callback with 10, 30, 50, 70, 100 and with no other value.
C23_VerifyFiveValues ==
    \A p \in VerifyCalls :
        call[p].outcome = "ok" => call[p].progress = <<10, 30, 50, 70, 100>>

\* C23: a verifyProofOnChain call that returns has called the progress
\* callback with 10, 30, 50, 70, 85, 100, each once and in this order, and
\* with no other value.
C23_VerifyProgress ==
    \A p \in VerifyCalls :
        call[p].outcome = "ok" => call[p].progress = <<10, 30, 50, 70, 85, 100>>

C23_Witness ==
    \E p \in VerifyCalls, q \in SunCallers :
        /\ call[p].outcome = "ok"
        /\ call[p].confirmed = "ok"
        /\ Len(call[p].progress) = 6
        /\ call[q].pc = "send"

\* C24: the isValid of the record verifyProofOnChain returns follows what the
\* cluster reported for the confirmed transaction: when the confirmation
\* answers that the transaction failed (the proof was rejected), isValid is
\* false.
C24_ValidityFromChain ==
    \A p \in VerifyCalls :
        (call[p].result # NoRecord /\ call[p].confirmed = "err") =>
            call[p].result.isValid = FALSE

\* C25: a requestAirdrop call made while the network is mainnet-beta fails at
\* once, before it has taken the connection or made a request on it, and the
\* network and connection of the service stay as they were; on the other
\* networks the request is made on the connection of the service.
C25_AirdropRefusedOnMainnet ==
    [][ \A p \in SunCallers :
          (call[p].kind = "none" /\ call'[p].kind = "airdrop") =>
              /\ svc' = svc
              /\ IF svc.network = "mainnet-beta"
                 THEN /\ call'[p].pc = "done"
                      /\ call'[p].outcome = "error"
                      /\ call'[p].conn = "none"
                      /\ call'[p].signature = <<>>
                 ELSE /\ call'[p].pc = "airdrop"
                      /\ call'[p].conn = svc.connection
      ]_vars

C25_Witness ==
    \E p, q \in SunCallers :
        /\ call[p].kind = "airdrop"
        /\ call[p].failedAt = "guard"
        /\ call[p].conn = "none"
        /\ svc.network = "mainnet-beta"
        /\ call[q].kind = "airdrop"
        /\ call[q].outcome = "ok"

\* C26: the network of the record deployVerifier or verifyProofOnChain returns
\* is the network of the connection its transaction was submitted on, also
\* when the network of the service is switched while the call is in flight.
C26_RecordNetwork ==
    \A p \in DeployCalls \cup VerifyCalls :
        call[p].result # NoRecord =>
            /\ call[p].result.network = call[p].conn
            /\ \A e \in ledger :
                  e.signature = call[p].result.transactionSignature =>
                      e.cluster = call[p].result.network

\* C27: in every state the connection getConnection returns is the one of the
\* service's network: no state, between or after setNetwork calls and with
\* calls in flight, shows a network together with the connection of another.
C27_ConnectionOfNetwork ==
    /\ svc.connection # "null"
    /\ GetConnection(svc) = svc.network

C27_Witness ==
    \E p, q \in SunCallers :
        /\ svc.network = "mainnet-beta"
        /\ svc.connection = "mainnet-beta"
        /\ call[p].pc = "send"
        /\ call[p].conn = "devnet"
        /\ call[q].pc = "blockhash"
        /\ call[q].conn = "testnet"

\* C28: in one deployVerifier or verifyProofOnChain call the signer is invoked
\* at most once and a transaction is submitted at most once; a call that
\* failed has made no external call after the one that failed, and the ledger
\* has at most one transaction of the call.
C28_SingleAttempt ==
    \A p \in DeployCalls \cup VerifyCalls :
        /\ call[p].signCalls <= 1
        /\ call[p].sends <= 1
        /\ Cardinality({ e \in ledger : e.signature = Signature(p) }) <= 1
        /\ call[p].failedAt \in {"rent", "blockhash"} =>
              (call[p].signCalls = 0 /\ call[p].sends = 0)
        /\ call[p].failedAt = "sign" => (call[p].signCalls = 1 /\ call[p].sends = 0)
        /\ call[p].failedAt = "send" =>
              /\ call[p].sends = 1
              /\ \A e \in ledger : e.signature # Signature(p)
        /\ call[p].outcome = "error" => call[p].pc = "done"

C28_Witness ==
    \E p, q \in DeployCalls \cup VerifyCalls :
        /\ call[p].failedAt = "send"
        /\ call[p].signCalls = 1
        /\ call[p].sends = 1
        /\ call[q].outcome = "ok"
        /\ call[q].sends = 1
        /\ Cardinality(ledger) = 1

-----------------------------------------------------------------------------
(* Further properties of IPFSService and GalleryService *)

\* the source that answered a download that has returned
AnsweredBy(d) == d.log[Len(d.log)].src

\* C29: a download that returns an artifact from the local store or from a
\* gateway has put it into the cache under the requested identifier; a
\* download of that identifier that follows, with no clearCache in between,
\* returns the same artifact from the cache alone; a step of a download that
\* does not return an artifact leaves the cache and the local store as they
\* were.
C29_DownloadCaches ==
    [][ /\ (dl' # dl /\ ~dl'.cleared /\ dl'.pc = "done" /\ dl'.outcome = "ok"
              /\ AnsweredBy(dl') \in {"local", "gateway"}) =>
                (dl'.cid \in DOMAIN cache' /\ cache'[dl'.cid] = dl'.result)
        /\ (dl.pc = "done" /\ dl.outcome = "ok" /\ ~dl.cleared
              /\ AnsweredBy(dl) \in {"local", "gateway"}
              /\ dl' # dl /\ ~dl'.cleared /\ dl'.cid = dl.cid) =>
                /\ dl'.pc = "done"
                /\ dl'.outcome = "ok"
                /\ dl'.result = dl.result
                /\ Len(dl'.log) = 1
                /\ AnsweredBy(dl') = "cache"
        /\ (dl' # dl /\ ~dl'.cleared /\ dl'.outcome # "ok") =>
                (cache' = cache /\ shared' = shared)
      ]_vars

\* C30: a GalleryService call whose read, parse or write of the backing store
\* fails returns instead of raising and leaves the persisted collection as it
\* was: getCircuits and searchCircuits return an empty list, incrementViews
\* and incrementLikes return nothing, addCircuit returns its entry with views
\* and likes 0, whether or not the collection lists that entry.
C30_GalleryNeverRaises ==
    [][ /\ gRet'.outcome = "ok"
        /\ gRet'.fault # "none" =>
              /\ gallery' = gallery
              /\ gRet'.op \in {"getCircuits", "searchCircuits",
                               "incrementViews", "incrementLikes"} =>
                    gRet'.ret = <<>>
              /\ gRet'.op = "addCircuit" =>
                    /\ Len(gRet'.ret) = 1
                    /\ gRet'.ret[1].cid = gRet'.cid
                    /\ gRet'.ret[1].views = 0
                    /\ gRet'.ret[1].likes = 0
      ]_vars

C30_Witness ==
    /\ gRet.op = "addCircuit"
    /\ gRet.fault = "write"
    /\ gRet.outcome = "ok"
    /\ Len(gRet.ret) = 1
    /\ Len(gallery) = 2
    /\ FindIndex(GalleryParse(gallery), gRet.cid) = 0

====
